---- MODULE Spec2Model ----
(***************************************************************************)
(* gemote: reconciliation of a repository's git remotes against a          *)
(* declarative configuration.                                              *)
(*                                                                         *)
(* The model covers one repository and one config node:                    *)
(*   git.rs   list_remotes, add_remote, update_remote_url,                 *)
(*            update_remote_push_url, remove_remote                        *)
(*   sync.rs  SyncAction, compute_diff, apply_actions                      *)
(*   main.rs  sync_one_repo                                                *)
(*                                                                         *)
(* The repository is the part of .git/config the git2 calls read and       *)
(* write: for every remote name the keys remote.<name>.url and             *)
(* remote.<name>.pushurl.  A remote exists (Repository::remotes lists it,  *)
(* Repository::find_remote finds it) iff one of the two keys is set; a     *)
(* remote without the url key is why list_remotes reads the url with       *)
(* unwrap_or_default.  What the git2 calls do with a name that is or is    *)
(* not there:                                                              *)
(*   remote          fails on an existing name (test add_remote_duplicate) *)
(*   remote_delete   fails on a missing name (remove_remote_nonexistent)   *)
(*   remote_set_url, remote_set_pushurl                                    *)
(*                   set or delete one config key and never look the       *)
(*                   remote up; only deleting a key that is not set fails  *)
(***************************************************************************)
EXTENDS Naturals, Sequences, FiniteSets, TLC

(* ----------------------------- bounds ---------------------------------- *)

\* number of distinct remote names in play
NumNames == 2
\* number of distinct URLs in play
NumUrls == 2
\* number of mutations another process performs on the repository
MaxExternal == 1
\* number of times the sync command is run in a row
MaxPasses == 2

(* ----------------------------- values ---------------------------------- *)

\* remote names, listed in ascending (BTreeMap<String, _>) order
NAMES == <<"origin", "stale", "upstream", "vendor", "zeta">>

URLS == <<"https://a/r.git", "https://b/r.git", "https://c/r.git", "https://d/r.git">>

Names == {NAMES[i] : i \in 1..NumNames}

Urls == {URLS[i] : i \in 1..NumUrls}

\* Option::None
None == "None"

\* position of a name in the key order of a BTreeMap<String, _>
Rank(n) == CHOOSE i \in 1..Len(NAMES) : NAMES[i] = n

\* the keys of a map in the order a BTreeMap iterates them
KeysAsc(S) == SelectSeq(NAMES, LAMBDA n : n \in S)

\* config.rs ExtraRemotes
ExtraRemotes == {"Ignore", "Warn", "Remove"}

\* config.rs RemoteConfig / git.rs RemoteInfo
RemoteConfig == [url : Urls, push_url : Urls \cup {None}]

\* a map from remote name to RemoteConfig with the given key set
RemoteMaps == UNION {[S -> RemoteConfig] : S \in SUBSET Names}

\* config.rs GemoteConfig (settings.extra_remotes, remotes)
GemoteConfig == [extra_remotes : ExtraRemotes, remotes : RemoteMaps]

EmptyMap == [n \in {} |-> None]

(* -------------------------- the repository ----------------------------- *)

\* the two config keys of a remote that does not exist
NoRemote == [url |-> None, pushurl |-> None]

\* the repository holds a remote of this name
Exists(r, name) == r[name].url # None \/ r[name].pushurl # None

\* the repository state `git remote add` leaves for the remotes of map m
RepoOf(m) ==
    [n \in Names |-> IF n \in DOMAIN m
                       THEN [url |-> m[n].url, pushurl |-> m[n].push_url]
                       ELSE NoRemote]

\* git.rs list_remotes: remote.url().unwrap_or_default(), remote.pushurl()
list_remotes(r) ==
    [n \in {x \in Names : Exists(r, x)} |->
        [url |-> IF r[n].url = None THEN "" ELSE r[n].url,
         push_url |-> r[n].pushurl]]

\* outcome of a git operation: Ok(()) with the new repository, or Err
Ok(r) == [ok |-> TRUE, repo |-> r]

Err(r) == [ok |-> FALSE, repo |-> r]

\* add_remote without its `if let Some(push)` branch
add_remote_no_pushurl(r, name, url, push_url) ==
    IF Exists(r, name)
    THEN Err(r)
    ELSE Ok([r EXCEPT ![name] = [url |-> url, pushurl |-> None]])

\* add_remote replacing a remote that is already there
add_remote_overwrite(r, name, url, push_url) ==
    Ok([r EXCEPT ![name] = [url |-> url, pushurl |-> push_url]])

\* git.rs add_remote: Repository::remote refuses an existing name
add_remote(r, name, url, push_url) ==
    IF Exists(r, name)
    THEN Err(r)
    ELSE Ok([r EXCEPT ![name] =
                [url |-> url, pushurl |-> push_url]])

\* git.rs update_remote_url: Repository::remote_set_url writes the key
\* remote.<name>.url; it does not look the remote up first
update_remote_url(r, name, url) ==
    Ok([r EXCEPT ![name].url = url])

\* git.rs update_remote_push_url: Repository::remote_set_pushurl writes the
\* key remote.<name>.pushurl, or deletes it for None (deleting a key that is
\* not set is an error)
update_remote_push_url(r, name, push_url) ==
    IF push_url = None
    THEN IF r[name].pushurl = None
         THEN Err(r)
         ELSE Ok([r EXCEPT ![name].pushurl = None])
    ELSE Ok([r EXCEPT ![name].pushurl = push_url])

\* remove_remote that reports success without deleting
remove_remote_noop(r, name) ==
    IF Exists(r, name) THEN Ok(r) ELSE Err(r)

\* git.rs remove_remote: Repository::remote_delete needs the remote to exist
remove_remote(r, name) ==
    IF Exists(r, name)
    THEN Ok([r EXCEPT ![name] = NoRemote])
    ELSE Err(r)

(* ----------------------------- sync.rs --------------------------------- *)

\* SyncAction::Add
Add(n, u, p) == [kind |-> "Add", name |-> n, url |-> u, push_url |-> p]

\* SyncAction::UpdateUrl
UpdateUrl(n, o, u) == [kind |-> "UpdateUrl", name |-> n, old_url |-> o, new_url |-> u]

\* SyncAction::UpdatePushUrl
UpdatePushUrl(n, o, p) == [kind |-> "UpdatePushUrl", name |-> n, old |-> o, new |-> p]

\* SyncAction::Remove
Remove(n) == [kind |-> "Remove", name |-> n]

\* the first loop comparing only the url
DiffOne_url_only(name, rc, local) ==
    IF name \notin DOMAIN local
    THEN <<Add(name, rc.url, rc.push_url)>>
    ELSE IF local[name].url # rc.url
         THEN <<UpdateUrl(name, local[name].url, rc.url)>>
         ELSE <<>>

\* the first loop pushing an Add that leaves the push_url out
DiffOne_add_no_push(name, rc, local) ==
    IF name \notin DOMAIN local
    THEN <<Add(name, rc.url, None)>>
    ELSE (IF local[name].url # rc.url
          THEN <<UpdateUrl(name, local[name].url, rc.url)>>
          ELSE <<>>)
         \o
         (IF local[name].push_url # rc.push_url
          THEN <<UpdatePushUrl(name, local[name].push_url, rc.push_url)>>
          ELSE <<>>)

\* the first loop with `else if` between the two comparisons
DiffOne_else_if(name, rc, local) ==
    IF name \notin DOMAIN local
    THEN <<Add(name, rc.url, rc.push_url)>>
    ELSE IF local[name].url # rc.url
         THEN <<UpdateUrl(name, local[name].url, rc.url)>>
         ELSE IF local[name].push_url # rc.push_url
              THEN <<UpdatePushUrl(name, local[name].push_url, rc.push_url)>>
              ELSE <<>>

\* compute_diff, body of the first loop for one config entry
DiffOne(name, rc, local) ==
    IF name \notin DOMAIN local
    THEN <<Add(name, rc.url, rc.push_url)>>
    ELSE (IF local[name].url # rc.url
          THEN <<UpdateUrl(name, local[name].url, rc.url)>>
          ELSE <<>>)
         \o
         (IF local[name].push_url # rc.push_url
          THEN <<UpdatePushUrl(name, local[name].push_url, rc.push_url)>>
          ELSE <<>>)

RECURSIVE DiffConfigured(_, _, _)
\* compute_diff, first loop: for (name, rc) in &config.remotes
DiffConfigured(keys, config, local) ==
    IF keys = <<>>
    THEN <<>>
    ELSE DiffOne(Head(keys), config.remotes[Head(keys)], local)
         \o DiffConfigured(Tail(keys), config, local)

\* the second loop without its `if !config.remotes.contains_key(name)`
ExtraKeys_all(config, local) ==
    KeysAsc(DOMAIN local)

\* the local remotes the second loop of compute_diff reaches its match for
ExtraKeys(config, local) ==
    SelectSeq(KeysAsc(DOMAIN local), LAMBDA n : n \notin DOMAIN config.remotes)

RECURSIVE DiffExtra_warn_removes(_, _)
\* the second loop with the Warn arm falling into the Remove arm
DiffExtra_warn_removes(keys, config) ==
    IF keys = <<>>
    THEN <<>>
    ELSE (IF config.extra_remotes \in {"Warn", "Remove"}
          THEN <<Remove(Head(keys))>>
          ELSE <<>>)
         \o DiffExtra_warn_removes(Tail(keys), config)

RECURSIVE DiffExtra_never_removes(_, _)
\* the second loop with the Remove arm left empty like the Ignore arm
DiffExtra_never_removes(keys, config) ==
    IF keys = <<>>
    THEN <<>>
    ELSE DiffExtra_never_removes(Tail(keys), config)

RECURSIVE DiffExtra(_, _)
\* compute_diff, second loop: for name in local.keys(), actions pushed
DiffExtra(keys, config) ==
    IF keys = <<>>
    THEN <<>>
    ELSE (IF config.extra_remotes = "Remove"
          THEN <<Remove(Head(keys))>>
          ELSE <<>>)
         \o DiffExtra(Tail(keys), config)

RECURSIVE WarnExtra(_, _)
\* compute_diff, second loop: the eprintln! lines of ExtraRemotes::Warn
WarnExtra(keys, config) ==
    IF keys = <<>>
    THEN <<>>
    ELSE (IF config.extra_remotes = "Warn"
          THEN <<[warning |-> "exists locally but not in config", name |-> Head(keys)]>>
          ELSE <<>>)
         \o WarnExtra(Tail(keys), config)

\* compute_diff with its two loops in the other order
compute_diff_removes_first(config, local) ==
    DiffExtra(ExtraKeys(config, local), config)
    \o DiffConfigured(KeysAsc(DOMAIN config.remotes), config, local)

\* sync.rs compute_diff: the returned Vec<SyncAction>
compute_diff(config, local) ==
    DiffConfigured(KeysAsc(DOMAIN config.remotes), config, local)
    \o DiffExtra(ExtraKeys(config, local), config)

\* sync.rs compute_diff: what it writes to stderr
compute_diff_stderr(config, local) ==
    WarnExtra(ExtraKeys(config, local), config)

\* sync.rs apply_actions, body of the loop for one action
apply_action(r, action) ==
    CASE action.kind = "Add" ->
            add_remote(r, action.name, action.url, action.push_url)
      [] action.kind = "UpdateUrl" ->
            update_remote_url(r, action.name, action.new_url)
      [] action.kind = "UpdatePushUrl" ->
            update_remote_push_url(r, action.name, action.new)
      [] action.kind = "Remove" ->
            remove_remote(r, action.name)

RECURSIVE apply_actions(_, _)
\* sync.rs apply_actions, the whole loop: `?` returns at the first error and
\* leaves what the earlier actions did; applied counts the actions that
\* took effect
apply_actions(r, acts) ==
    IF acts = <<>>
    THEN [ok |-> TRUE, repo |-> r, applied |-> 0]
    ELSE LET out == apply_action(r, Head(acts))
         IN IF ~out.ok
            THEN [ok |-> FALSE, repo |-> out.repo, applied |-> 0]
            ELSE LET rest == apply_actions(out.repo, Tail(acts))
                 IN [ok |-> rest.ok, repo |-> rest.repo,
                     applied |-> rest.applied + 1]

(* --------------------------- config.rs --------------------------------- *)

(* A TOML document is the tree of its tables: a table is a record that    *)
(* holds only the keys written in it.  A file is [status, doc]: status is  *)
(* "missing", "malformed" (not a GemoteConfig in TOML) or "ok".            *)

\* #[serde(rename_all = "lowercase")] on ExtraRemotes, serializing
Lowercase(variant) ==
    CASE variant = "Ignore" -> "ignore"
      [] variant = "Warn" -> "warn"
      [] variant = "Remove" -> "remove"

\* #[serde(rename_all = "lowercase")] on ExtraRemotes, deserializing
Variant(text) ==
    CASE text = "ignore" -> "Ignore"
      [] text = "warn" -> "Warn"
      [] text = "remove" -> "Remove"

\* RemoteConfig serialized with its push_url left out in every case
TomlRemote_no_push_url(rc) ==
    [url |-> rc.url]

\* RemoteConfig serialized: push_url has skip_serializing_if = "Option::is_none"
TomlRemote(rc) ==
    IF rc.push_url = None
    THEN [url |-> rc.url]
    ELSE [url |-> rc.url, push_url |-> rc.push_url]

RECURSIVE TomlTable(_)
\* GemoteConfig serialized: settings, remotes, and submodules with
\* skip_serializing_if = "BTreeMap::is_empty"
TomlTable(cfg) ==
    LET settings == [extra_remotes |-> Lowercase(cfg.extra_remotes)]
        remotes == [n \in DOMAIN cfg.remotes |-> TomlRemote(cfg.remotes[n])]
    IN IF DOMAIN cfg.submodules = {}
       THEN [settings |-> settings, remotes |-> remotes]
       ELSE [settings |-> settings, remotes |-> remotes,
             submodules |-> [p \in DOMAIN cfg.submodules |->
                                TomlTable(cfg.submodules[p])]]

\* config.rs serialize_config: the comment header and toml::to_string_pretty
serialize_config(cfg) ==
    [header |-> "# Gemote configuration file", body |-> TomlTable(cfg)]

\* RemoteConfig deserialized: a push_url that is not written is None
FromTomlRemote(t) ==
    [url |-> t.url,
     push_url |-> IF "push_url" \in DOMAIN t THEN t.push_url ELSE None]

RECURSIVE FromTomlTable(_)
\* GemoteConfig deserialized: every field has #[serde(default)]
FromTomlTable(t) ==
    [extra_remotes |->
        IF "settings" \in DOMAIN t
        THEN IF "extra_remotes" \in DOMAIN t.settings
             THEN Variant(t.settings.extra_remotes)
             ELSE "Ignore"
        ELSE "Ignore",
     remotes |->
        IF "remotes" \in DOMAIN t
        THEN [n \in DOMAIN t.remotes |-> FromTomlRemote(t.remotes[n])]
        ELSE EmptyMap,
     submodules |->
        IF "submodules" \in DOMAIN t
        THEN [p \in DOMAIN t.submodules |-> FromTomlTable(t.submodules[p])]
        ELSE EmptyMap]

\* toml::from_str on the contents of a file: comments are skipped
from_str(contents) == FromTomlTable(contents.body)

\* load_config that reads whatever document there is
load_config_lenient(file) ==
    [ok |-> TRUE, cfg |-> from_str(file.doc)]

\* config.rs load_config: a missing file is ConfigNotFound, a document that
\* is not a GemoteConfig in TOML is ConfigParse
load_config(file) ==
    IF file.status = "missing"
    THEN [ok |-> FALSE, cfg |-> EmptyMap]
    ELSE IF file.status = "malformed"
         THEN [ok |-> FALSE, cfg |-> EmptyMap]
         ELSE [ok |-> TRUE, cfg |-> from_str(file.doc)]

(* ------------------------- git.rs: discovery --------------------------- *)

(* A path is the sequence of its components; "libs/core" is                *)
(* <<"libs", "core">> and the repository root itself is <<>>.  The file    *)
(* system fs has                                                           *)
(*   fs.repos       the directories that hold a .git that opens, given by  *)
(*                  their path from the top repository                     *)
(*   fs.submodules  for a repository, the submodules registered in it, in  *)
(*                  the order Repository::submodules yields them, each     *)
(*                  with its name and its path (below that repository)     *)
(*   fs.unreadable  the directories std::fs::read_dir fails on             *)
(*   fs.reversed    read_dir yields entries in an order the platform       *)
(*                  chooses: ascending by name, or descending when set     *)

\* path components, in ascending order of their strings
SEGS == <<".hidden", "core", "libs", "sub", "vendor">>

\* no component counted as starting with '.'
HiddenSegs_none == {}

\* the components that start with '.'
HiddenSegs == {".hidden"}

\* the directories of the working tree
DIRS ==
    { <<".hidden">>, <<".hidden", "core">>,
      <<"libs">>, <<"libs", "core">>, <<"libs", "core", "sub">>,
      <<"vendor">> }

\* position of a path component in string order
SegRank(g) == CHOOSE i \in 1..Len(SEGS) : SEGS[i] = g

RECURSIVE PathLt(_, _)
\* String::cmp on two slash-joined paths: no component is a prefix of another
\* one, so the first component that differs decides, and a path sorts
\* before its extensions
PathLt(p, q) ==
    IF q = <<>> THEN FALSE
    ELSE IF p = <<>> THEN TRUE
    ELSE IF Head(p) # Head(q) THEN SegRank(Head(p)) < SegRank(Head(q))
    ELSE PathLt(Tail(p), Tail(q))

\* Path::strip_prefix(base) with to_slash_lossy
Rel(base, path) == SubSeq(path, Len(base) + 1, Len(path))

\* the submodules registered in the repository at base
SubmodulesOf(fs, base) ==
    IF base \in DOMAIN fs.submodules THEN fs.submodules[base] ELSE <<>>

\* SubRepoInfo, with where the entry came from
SubRepoInfo(path, repo, src) == [path |-> path, repo |-> repo, src |-> src]

RECURSIVE ListSubs_stops(_, _, _)
\* list_submodules returning at the first submodule that does not open
ListSubs_stops(fs, base, subs) ==
    IF subs = <<>>
    THEN <<>>
    ELSE IF base \o Head(subs).path \in fs.repos
         THEN <<SubRepoInfo(Head(subs).name, base \o Head(subs).path, "submodule")>>
              \o ListSubs_stops(fs, base, Tail(subs))
         ELSE <<>>

RECURSIVE ListSubs(_, _, _)
\* git.rs list_submodules, the loop: sub.name() becomes the entry's path, a
\* submodule that does not open is skipped
ListSubs(fs, base, subs) ==
    IF subs = <<>>
    THEN <<>>
    ELSE (IF base \o Head(subs).path \in fs.repos
          THEN <<SubRepoInfo(Head(subs).name, base \o Head(subs).path, "submodule")>>
          ELSE <<>>)
         \o ListSubs(fs, base, Tail(subs))

\* git.rs list_submodules
list_submodules(fs, base) == ListSubs(fs, base, SubmodulesOf(fs, base))

\* a sequence back to front
Reverse(seq) == [i \in 1..Len(seq) |-> seq[Len(seq) + 1 - i]]

RECURSIVE ListSubsWarn(_, _, _)
\* git.rs list_submodules, the loop: the eprintln! line for each submodule
\* that does not open
ListSubsWarn(fs, base, subs) ==
    IF subs = <<>>
    THEN <<>>
    ELSE (IF base \o Head(subs).path \in fs.repos
          THEN <<>>
          ELSE <<[warning |-> "skipping uninitialized submodule",
                  name |-> Head(subs).name]>>)
         \o ListSubsWarn(fs, base, Tail(subs))

\* git.rs list_submodules: what it writes to stderr
list_submodules_stderr(fs, base) == ListSubsWarn(fs, base, SubmodulesOf(fs, base))

\* read_dir treating a directory it cannot read like any other
ReadDir_reads_all(fs, dir) ==
    LET asc == SelectSeq([i \in 1..Len(SEGS) |-> Append(dir, SEGS[i])],
                         LAMBDA d : d \in DIRS)
    IN IF fs.reversed THEN Reverse(asc) ELSE asc

\* std::fs::read_dir(dir), the entries that are directories; Err(_) is
\* taken as no entries (git.rs 111-114)
ReadDir(fs, dir) ==
    IF dir \in fs.unreadable
    THEN <<>>
    ELSE LET asc == SelectSeq([i \in 1..Len(SEGS) |-> Append(dir, SEGS[i])],
                              LAMBDA d : d \in DIRS)
         IN IF fs.reversed THEN Reverse(asc) ELSE asc

RECURSIVE ScanEntries_enters_repos(_, _, _, _)
\* the scan without the `continue` after a repository: it goes on below it
ScanEntries_enters_repos(fs, base, entries, known) ==
    IF entries = <<>>
    THEN <<>>
    ELSE LET path == Head(entries)
             rel == Rel(base, path)
             rest == ScanEntries_enters_repos(fs, base, Tail(entries), known)
             below == ScanEntries_enters_repos(fs, base, ReadDir(fs, path), known)
         IN IF path[Len(path)] \in HiddenSegs THEN rest
            ELSE IF rel \in known THEN rest
            ELSE IF path \in fs.repos
                 THEN <<SubRepoInfo(rel, path, "scan")>> \o below \o rest
                 ELSE below \o rest

RECURSIVE ScanEntries(_, _, _, _)
\* git.rs discover_nested_repos_recursive, the loop over the entries of one
\* directory
ScanEntries(fs, base, entries, known) ==
    IF entries = <<>>
    THEN <<>>
    ELSE LET path == Head(entries)
             rel == Rel(base, path)
             rest == ScanEntries(fs, base, Tail(entries), known)
         IN IF path[Len(path)] \in HiddenSegs THEN rest
            ELSE IF rel \in known THEN rest
            ELSE IF path \in fs.repos
                 THEN <<SubRepoInfo(rel, path, "scan")>> \o rest
                 ELSE ScanEntries(fs, base, ReadDir(fs, path), known) \o rest

\* git.rs discover_nested_repos
discover_nested_repos(fs, repo_root, known_paths) ==
    ScanEntries(fs, repo_root, ReadDir(fs, repo_root), known_paths)

RECURSIVE RetainFirst(_, _)
\* collect_all_repos: all.retain(|info| seen.insert(info.path.clone()))
RetainFirst(all, seen) ==
    IF all = <<>>
    THEN <<>>
    ELSE IF Head(all).path \in seen
         THEN RetainFirst(Tail(all), seen)
         ELSE <<Head(all)>> \o RetainFirst(Tail(all), seen \cup {Head(all).path})

RECURSIVE InsertByPath(_, _)
\* one entry put behind the entries of a sorted Vec that are not greater
InsertByPath(info, sorted) ==
    IF sorted = <<>>
    THEN <<info>>
    ELSE IF PathLt(info.path, Head(sorted).path)
         THEN <<info>> \o sorted
         ELSE <<Head(sorted)>> \o InsertByPath(info, Tail(sorted))

RECURSIVE SortByPath(_)
\* collect_all_repos: all.sort_by(|a, b| a.path.cmp(&b.path)), a stable sort
SortByPath(all) ==
    IF all = <<>>
    THEN <<>>
    ELSE InsertByPath(all[Len(all)], SortByPath(SubSeq(all, 1, Len(all) - 1)))

\* collect_all_repos without its final sort_by
collect_all_repos_unsorted(fs, repo_root) ==
    LET submodules == list_submodules(fs, repo_root)
        known == {submodules[i].path : i \in 1..Len(submodules)}
        nested == discover_nested_repos(fs, repo_root, known)
    IN RetainFirst(submodules \o nested, {})

\* git.rs collect_all_repos
collect_all_repos(fs, repo_root) ==
    LET submodules == list_submodules(fs, repo_root)
        known == {submodules[i].path : i \in 1..Len(submodules)}
        nested == discover_nested_repos(fs, repo_root, known)
    IN SortByPath(RetainFirst(submodules \o nested, {}))

(* ------------------------------ state ---------------------------------- *)

VARIABLES
    config,     \* the GemoteConfig the command loaded
    dry_run,    \* the --dry-run flag
    repo,       \* the repository's remotes
    pc,         \* position in sync_one_repo: "start", "apply", "done"
    local,      \* sync_one_repo's snapshot of the remotes
    actions,    \* sync_one_repo's computed actions
    idx,        \* apply_actions: index of the next action
    result,     \* what sync_one_repo returned: "none", "ok", "err"
    stderr,     \* diagnostics written so far by this run
    log,        \* the actions apply_actions attempted, with their outcome
    repo0,      \* the repository as apply_actions found it
    extop,      \* the mutation another process made during this run
    ext,        \* number of mutations by other processes so far
    pass,       \* number of the current run of the command
    prev        \* outcome of the previous run

\* the state of discovery and of the recursive walk (cmd_sync --recursive)
VARIABLES
    fs,         \* the working tree: its repositories and their submodules
    found,      \* what one call of collect_all_repos returned
    remotes,    \* the remotes of every repository of the working tree
    remotes0,   \* the remotes of every repository when the command started
    recursive,  \* the --recursive flag
    node,       \* the repository sync_one_repo is working on, with its config
    stack,      \* the loops over sub_repos that are under way, innermost last
    visits,     \* the calls of sync_one_repo so far
    pre,        \* the remotes of the current repository as apply_actions found them
    config_file, \* the file cmd_sync loads the config from, cmd_save writes
    save_args   \* the --overwrite and --recursive flags of cmd_save

\* what only the single-repository run uses
passVars == <<repo, idx, log, repo0, pass, prev>>

\* what only discovery and the recursive walk use
treeVars == <<fs, found, remotes, remotes0, recursive, node, stack, visits, pre,
              config_file, save_args>>

vars == <<config, dry_run, repo, pc, local, actions, idx, result, stderr,
          log, repo0, extop, ext, pass, prev,
          fs, found, remotes, remotes0, recursive, node, stack, visits, pre,
          config_file, save_args>>

\* a working tree without nested repositories
NoFs == [repos |-> {<<>>}, submodules |-> [b \in {<<>>} |-> <<>>],
         unreadable |-> {}, reversed |-> FALSE]

\* collect_all_repos has not been called
NoFound == [done |-> FALSE, call |-> "none", base |-> <<>>, known |-> {},
            all |-> <<>>]

\* no repository is being reconciled
NoNode == [loc |-> <<>>, parent |-> <<>>, label |-> <<>>, cfg |-> EmptyMap]

\* the config is already in memory
NoFile == [status |-> "loaded", doc |-> EmptyMap]

\* cmd_save is not run
NoSave == [overwrite |-> FALSE, recursive |-> FALSE]

\* the single-repository run: no nested repository, --recursive not given
TreeIdle ==
    /\ fs = NoFs
    /\ found = NoFound
    /\ remotes = EmptyMap
    /\ remotes0 = EmptyMap
    /\ recursive = FALSE
    /\ node = NoNode
    /\ stack = <<>>
    /\ visits = <<>>
    /\ pre = EmptyMap
    /\ config_file = NoFile
    /\ save_args = NoSave

NoExt == [kind |-> "none", name |-> None]

Init ==
    /\ config \in GemoteConfig
    /\ dry_run \in BOOLEAN
    /\ \E m \in RemoteMaps : repo = RepoOf(m)
    /\ pc = "start"
    /\ local = EmptyMap
    /\ actions = <<>>
    /\ idx = 1
    /\ result = "none"
    /\ stderr = <<>>
    /\ log = <<>>
    /\ repo0 = repo
    /\ extop = NoExt
    /\ ext = 0
    /\ pass = 1
    /\ prev = [result |-> "none", repo |-> repo, applied |-> 0]
    /\ TreeIdle

\* main.rs sync_one_repo up to the call of apply_actions: list_remotes,
\* compute_diff, the "Already in sync" return and the dry-run branch
ListAndDiff ==
    /\ pc = "start"
    /\ LET l == list_remotes(repo)
           a == compute_diff(config, l)
       IN /\ local' = l
          /\ actions' = a
          /\ stderr' = stderr \o compute_diff_stderr(config, l)
          /\ IF a = <<>> \/ dry_run
             THEN pc' = "done" /\ result' = "ok"
             ELSE pc' = "apply" /\ result' = "none"
    /\ idx' = 1
    /\ log' = <<>>
    /\ repo0' = repo
    /\ UNCHANGED <<config, dry_run, repo, extop, ext, pass, prev>>
    /\ UNCHANGED treeVars

\* apply_actions dropping the `?`: an error does not end the loop
ApplyStep_continue ==
    /\ pc = "apply"
    /\ idx <= Len(actions)
    /\ LET out == apply_action(repo, actions[idx])
       IN /\ repo' = out.repo
          /\ log' = Append(log, [idx |-> idx, ok |-> out.ok])
          /\ IF idx = Len(actions)
             THEN pc' = "done" /\ result' = "ok" /\ idx' = idx + 1
             ELSE pc' = "apply" /\ result' = "none" /\ idx' = idx + 1
    /\ UNCHANGED <<config, dry_run, local, actions, stderr, repo0, extop, ext,
                   pass, prev>>
    /\ UNCHANGED treeVars

\* sync.rs apply_actions: one iteration of the loop; `?` returns the first
\* error, the end of the loop returns Ok(())
ApplyStep ==
    /\ pc = "apply"
    /\ idx <= Len(actions)
    /\ LET out == apply_action(repo, actions[idx])
       IN /\ repo' = out.repo
          /\ log' = Append(log, [idx |-> idx, ok |-> out.ok])
          /\ IF ~out.ok
             THEN pc' = "done" /\ result' = "err" /\ idx' = idx
             ELSE IF idx = Len(actions)
                  THEN pc' = "done" /\ result' = "ok" /\ idx' = idx + 1
                  ELSE pc' = "apply" /\ result' = "none" /\ idx' = idx + 1
    /\ UNCHANGED <<config, dry_run, local, actions, stderr, repo0, extop, ext,
                   pass, prev>>
    /\ UNCHANGED treeVars

\* another process runs `git remote add` between the snapshot and the apply
ExternalCreate ==
    /\ pc = "apply"
    /\ idx = 1
    /\ ext < MaxExternal
    /\ \E n \in Names, u \in Urls :
          /\ ~Exists(repo, n)
          /\ repo' = [repo EXCEPT ![n] = [url |-> u, pushurl |-> None]]
          /\ extop' = [kind |-> "create", name |-> n]
    /\ repo0' = repo'
    /\ ext' = ext + 1
    /\ UNCHANGED <<config, dry_run, pc, local, actions, idx, result, stderr,
                   log, pass, prev>>
    /\ UNCHANGED treeVars

\* another process runs `git remote remove` between the snapshot and the apply
ExternalDelete ==
    /\ pc = "apply"
    /\ idx = 1
    /\ ext < MaxExternal
    /\ \E n \in Names :
          /\ Exists(repo, n)
          /\ repo' = [repo EXCEPT ![n] = NoRemote]
          /\ extop' = [kind |-> "delete", name |-> n]
    /\ repo0' = repo'
    /\ ext' = ext + 1
    /\ UNCHANGED <<config, dry_run, pc, local, actions, idx, result, stderr,
                   log, pass, prev>>
    /\ UNCHANGED treeVars

\* main.rs main: the command is run again on the same repository and config
Rerun ==
    /\ pc = "done"
    /\ pass < MaxPasses
    /\ pass' = pass + 1
    /\ prev' = [result |-> result, repo |-> repo, applied |-> Len(log)]
    /\ pc' = "start"
    /\ local' = EmptyMap
    /\ actions' = <<>>
    /\ idx' = 1
    /\ result' = "none"
    /\ stderr' = <<>>
    /\ log' = <<>>
    /\ repo0' = repo
    /\ extop' = NoExt
    /\ UNCHANGED <<config, dry_run, repo, ext>>
    /\ UNCHANGED treeVars

Next ==
    \/ ListAndDiff
    \/ ApplyStep
    \/ ExternalCreate
    \/ ExternalDelete
    \/ Rerun

Spec == Init /\ [][Next]_vars

(* ------------------------- discovery on its own ------------------------ *)

LibsCore == <<"libs", "core">>

Vendor == <<"vendor">>

\* a submodule registered under the name its path spells
Registered(path) == [name |-> path, path |-> path]

\* a submodule registered under a name of its own
\* (git submodule add --name, or a submodule moved with git mv)
Named(name, path) == [name |-> name, path |-> path]

\* the submodules of the top repository, as Repository::submodules yields them
SubmoduleLists ==
    { <<>>,
      <<Registered(LibsCore)>>,
      <<Registered(Vendor)>>,
      <<Registered(LibsCore), Registered(Vendor)>>,
      <<Registered(Vendor), Registered(LibsCore)>>,
      <<Named(<<"core">>, LibsCore)>> }

\* the working trees discovery is run on: any of the directories may be a
\* repository
FsWorlds ==
    [repos : {{<<>>} \cup R : R \in SUBSET DIRS},
     submodules : [{<<>>} -> SubmoduleLists],
     unreadable : SUBSET {<<"libs">>, <<"vendor">>},
     reversed : BOOLEAN]

\* the single-repository run and the walk are not under way
PassIdle ==
    /\ config = [extra_remotes |-> "Ignore", remotes |-> EmptyMap]
    /\ dry_run = FALSE
    /\ repo = RepoOf(EmptyMap)
    /\ local = EmptyMap
    /\ actions = <<>>
    /\ idx = 1
    /\ result = "none"
    /\ stderr = <<>>
    /\ log = <<>>
    /\ repo0 = repo
    /\ extop = NoExt
    /\ ext = 0
    /\ pass = 1
    /\ prev = [result |-> "none", repo |-> repo, applied |-> 0]

DiscInit ==
    /\ fs \in FsWorlds
    /\ found = NoFound
    /\ pc = "start"
    /\ PassIdle
    /\ remotes = EmptyMap
    /\ remotes0 = EmptyMap
    /\ recursive = TRUE
    /\ node = NoNode
    /\ stack = <<>>
    /\ visits = <<>>
    /\ pre = EmptyMap
    /\ config_file = NoFile
    /\ save_args = NoSave

\* git.rs collect_all_repos called on one repository of the working tree
Collect ==
    /\ pc = "start"
    /\ \E base \in fs.repos :
          /\ found' = [done |-> TRUE, call |-> "collect", base |-> base,
                       known |-> {}, all |-> collect_all_repos(fs, base)]
          /\ stderr' = stderr \o list_submodules_stderr(fs, base)
    /\ pc' = "done"
    /\ result' = "ok"
    /\ UNCHANGED <<config, dry_run, local, actions, extop, ext>>
    /\ UNCHANGED passVars
    /\ UNCHANGED <<fs, remotes, remotes0, recursive, node, stack, visits, pre,
                   config_file, save_args>>

\* the paths a caller may pass as known_paths
KnownSets == {{}, {Vendor}}

\* git.rs discover_nested_repos called on its own on one repository of the
\* working tree
Scan ==
    /\ pc = "start"
    /\ \E base \in fs.repos, known \in KnownSets :
          found' = [done |-> TRUE, call |-> "scan", base |-> base,
                    known |-> known,
                    all |-> discover_nested_repos(fs, base, known)]
    /\ pc' = "done"
    /\ result' = "ok"
    /\ UNCHANGED <<config, dry_run, local, actions, stderr, extop, ext>>
    /\ UNCHANGED passVars
    /\ UNCHANGED <<fs, remotes, remotes0, recursive, node, stack, visits, pre,
                   config_file, save_args>>

DiscNext == Collect \/ Scan

SpecDisc == DiscInit /\ [][DiscNext]_vars

(* ---------------------- cmd_sync --recursive --------------------------- *)

\* the remotes section with the single remote origin
OriginOnly == [n \in {"origin"} |-> [url |-> URLS[1], push_url |-> None]]

\* a repository whose only remote is stale
StaleOnly == [n \in {"stale"} |-> [url |-> URLS[1], push_url |-> None]]

\* settings and remotes of the top-level document
RootSettings ==
    { [extra_remotes |-> "Ignore", remotes |-> EmptyMap],
      [extra_remotes |-> "Warn", remotes |-> OriginOnly],
      [extra_remotes |-> "Remove", remotes |-> OriginOnly] }

\* settings and remotes of a [submodules."..."] section
NestedSettings ==
    { [extra_remotes |-> "Ignore", remotes |-> EmptyMap],
      [extra_remotes |-> "Remove", remotes |-> OriginOnly] }

\* config.rs GemoteConfig with its submodules map
WithSubmodules(s, subs) ==
    [extra_remotes |-> s.extra_remotes, remotes |-> s.remotes,
     submodules |-> subs]

\* the maps from some of the keys to the values
PartialMaps(keys, values) == UNION {[D -> values] : D \in SUBSET keys}

\* config nodes two levels down: no submodules section of their own
LeafConfigs == {WithSubmodules(s, EmptyMap) : s \in NestedSettings}

\* config nodes one level down
MidConfigs ==
    {WithSubmodules(s, m) :
        s \in NestedSettings, m \in PartialMaps({<<"sub">>}, LeafConfigs)}

\* the documents load_config can return
ConfigTrees ==
    {WithSubmodules(s, m) :
        s \in RootSettings, m \in PartialMaps({LibsCore, Vendor}, MidConfigs)}

\* the documents a file that does not load is drawn from
FlatConfigs == {WithSubmodules(s, EmptyMap) : s \in RootSettings}

\* the config file: missing, not a GemoteConfig in TOML, or a document
ConfigFiles ==
    [status : {"ok"}, doc : {serialize_config(c) : c \in ConfigTrees}]
    \cup [status : {"missing", "malformed"},
          doc : {serialize_config(c) : c \in FlatConfigs}]

\* the nested directories that may be repositories in the walk
TreeRepos == {LibsCore, Vendor, <<"libs", "core", "sub">>}

\* working trees without registered submodules, all readable; read_dir
\* yields descending order, so that the order of the walk is the work of
\* collect_all_repos' sort
TreeWorlds ==
    [repos : {{<<>>} \cup R : R \in SUBSET TreeRepos},
     submodules : [{<<>>} -> {<<>>}],
     unreadable : {{}},
     reversed : {TRUE}]

\* the root, an Option<&str> label of None
RootNode(cfg) == [loc |-> <<>>, parent |-> <<>>, label |-> <<>>, cfg |-> cfg]

\* one `for sub in &sub_repos` loop under way
Frame(cfg, base, label, subs) ==
    [cfg |-> cfg, base |-> base, label |-> label, subs |-> subs]

TreeInit ==
    /\ config_file \in ConfigFiles
    /\ save_args = NoSave
    /\ fs \in TreeWorlds
    /\ remotes \in [fs.repos -> {RepoOf(EmptyMap), RepoOf(StaleOnly)}]
    /\ remotes0 = remotes
    /\ dry_run \in BOOLEAN
    /\ recursive \in BOOLEAN
    /\ config = EmptyMap
    /\ pc = "start"
    /\ node = NoNode
    /\ stack = <<>>
    /\ visits = <<>>
    /\ pre = EmptyMap
    /\ local = EmptyMap
    /\ actions = <<>>
    /\ result = "none"
    /\ stderr = <<>>
    /\ extop = NoExt
    /\ ext = 0
    /\ found = NoFound
    /\ repo = RepoOf(EmptyMap)
    /\ idx = 1
    /\ log = <<>>
    /\ repo0 = repo
    /\ pass = 1
    /\ prev = [result |-> "none", repo |-> repo, applied |-> 0]

\* what the walk never touches
treeFrame == <<dry_run, recursive, fs, remotes0, config_file, save_args, found,
               repo, idx, log, repo0, pass, prev>>

\* one call of sync_one_repo, as the walk records it
Visit(n, acts, out) ==
    [loc |-> n.loc, parent |-> n.parent, label |-> n.label, cfg |-> n.cfg,
     actions |-> acts, ok |-> out.ok, applied |-> out.applied]

\* main.rs cmd_sync: load_config, with `?` on its error
TLoad ==
    /\ pc = "start"
    /\ LET loaded == load_config(config_file)
       IN IF loaded.ok
          THEN /\ config' = loaded.cfg
               /\ node' = RootNode(loaded.cfg)
               /\ pc' = "sync"
               /\ result' = "none"
          ELSE /\ config' = config
               /\ node' = node
               /\ pc' = "done"
               /\ result' = "err"
    /\ UNCHANGED <<remotes, stack, visits, pre, local, actions, stderr, extop, ext>>
    /\ UNCHANGED treeFrame

\* sync_one_repo applying the actions of a dry run too
TSync_applies_dry_run ==
    /\ pc = "sync"
    /\ LET l == list_remotes(remotes[node.loc])
           a == compute_diff(node.cfg, l)
       IN /\ local' = l
          /\ actions' = a
          /\ stderr' = stderr \o compute_diff_stderr(node.cfg, l)
          /\ IF a = <<>>
             THEN /\ pc' = "descend"
                  /\ visits' = Append(visits,
                        Visit(node, a, [ok |-> TRUE, applied |-> 0]))
             ELSE /\ pc' = "apply"
                  /\ visits' = visits
    /\ pre' = remotes[node.loc]
    /\ UNCHANGED <<config, node, remotes, stack, result, extop, ext>>
    /\ UNCHANGED treeFrame

\* main.rs sync_one_repo up to the call of apply_actions, on the repository
\* of the current node: list_remotes, compute_diff, the "Already in sync"
\* return and the dry-run branch
TSync ==
    /\ pc = "sync"
    /\ LET l == list_remotes(remotes[node.loc])
           a == compute_diff(node.cfg, l)
       IN /\ local' = l
          /\ actions' = a
          /\ stderr' = stderr \o compute_diff_stderr(node.cfg, l)
          /\ IF a = <<>> \/ dry_run
             THEN /\ pc' = "descend"
                  /\ visits' = Append(visits,
                        Visit(node, a, [ok |-> TRUE, applied |-> 0]))
             ELSE /\ pc' = "apply"
                  /\ visits' = visits
    /\ pre' = remotes[node.loc]
    /\ UNCHANGED <<config, node, remotes, stack, result, extop, ext>>
    /\ UNCHANGED treeFrame

\* sync_one_repo swallowing the error of apply_actions
TApply_swallows_error ==
    /\ pc = "apply"
    /\ LET out == apply_actions(remotes[node.loc], actions)
       IN /\ remotes' = [remotes EXCEPT ![node.loc] = out.repo]
          /\ visits' = Append(visits, Visit(node, actions, out))
          /\ pc' = "descend"
          /\ result' = "none"
    /\ UNCHANGED <<config, node, stack, pre, local, actions, stderr, extop, ext>>
    /\ UNCHANGED treeFrame

\* main.rs sync_one_repo: apply_actions with `?`; the callers pass the error
\* on with `?` as well, so it ends cmd_sync
TApply ==
    /\ pc = "apply"
    /\ LET out == apply_actions(remotes[node.loc], actions)
       IN /\ remotes' = [remotes EXCEPT ![node.loc] = out.repo]
          /\ visits' = Append(visits, Visit(node, actions, out))
          /\ IF out.ok
             THEN pc' = "descend" /\ result' = "none"
             ELSE pc' = "done" /\ result' = "err"
    /\ UNCHANGED <<config, node, stack, pre, local, actions, stderr, extop, ext>>
    /\ UNCHANGED treeFrame

\* another process runs `git remote add` in the current repository between
\* the snapshot and the apply
TExternalCreate ==
    /\ pc = "apply"
    /\ ext < MaxExternal
    /\ \E n \in Names, u \in Urls :
          /\ ~Exists(remotes[node.loc], n)
          /\ remotes' = [remotes EXCEPT
                            ![node.loc][n] = [url |-> u, pushurl |-> None]]
          /\ extop' = [kind |-> "create", name |-> n]
    /\ pre' = remotes'[node.loc]
    /\ ext' = ext + 1
    /\ UNCHANGED <<config, node, stack, visits, pc, local, actions, result, stderr>>
    /\ UNCHANGED treeFrame

\* another process runs `git remote remove` in the current repository
\* between the snapshot and the apply
TExternalDelete ==
    /\ pc = "apply"
    /\ ext < MaxExternal
    /\ \E n \in Names :
          /\ Exists(remotes[node.loc], n)
          /\ remotes' = [remotes EXCEPT ![node.loc][n] = NoRemote]
          /\ extop' = [kind |-> "delete", name |-> n]
    /\ pre' = remotes'[node.loc]
    /\ ext' = ext + 1
    /\ UNCHANGED <<config, node, stack, visits, pc, local, actions, result, stderr>>
    /\ UNCHANGED treeFrame

RECURSIVE PathsAsc(_)
\* the keys of a BTreeMap<String, GemoteConfig> in the order it iterates them
PathsAsc(S) ==
    IF S = {}
    THEN <<>>
    ELSE LET least == CHOOSE p \in S : \A q \in S \ {p} : PathLt(p, q)
         IN <<least>> \o PathsAsc(S \ {least})

RECURSIVE WarnMissing(_, _)
\* cmd_sync: the eprintln! lines for config sections with no matching repo
WarnMissing(keys, discovered_paths) ==
    IF keys = <<>>
    THEN <<>>
    ELSE (IF Head(keys) \notin discovered_paths
          THEN <<[warning |-> "config has submodule section but no matching repo found",
                  name |-> Head(keys)]>>
          ELSE <<>>)
         \o WarnMissing(Tail(keys), discovered_paths)

\* main.rs cmd_sync after the root's sync_one_repo: without --recursive the
\* command is over; with it, collect_all_repos, the warnings for config
\* sections with no matching repo, and the loop over sub_repos begins
TDescendRoot ==
    /\ pc = "descend"
    /\ stack = <<>>
    /\ IF recursive
       THEN LET sub_repos == collect_all_repos(fs, node.loc)
                discovered_paths ==
                    {sub_repos[i].path : i \in 1..Len(sub_repos)}
            IN /\ stderr' = stderr \o list_submodules_stderr(fs, node.loc) \o
                      WarnMissing(PathsAsc(DOMAIN node.cfg.submodules),
                                  discovered_paths)
               /\ stack' = <<Frame(node.cfg, node.loc, node.label, sub_repos)>>
               /\ pc' = "iter"
               /\ result' = "none"
       ELSE /\ stderr' = stderr
            /\ stack' = stack
            /\ pc' = "done"
            /\ result' = "ok"
    /\ UNCHANGED <<config, node, remotes, visits, pre, local, actions, extop, ext>>
    /\ UNCHANGED treeFrame

\* main.rs cmd_sync 72-82 and sync_submodules_recursive 110-114, 103-104:
\* after a nested repository's sync_one_repo the walk goes below it only if
\* its config node has submodules; sync_submodules_recursive then calls
\* collect_all_repos on it and loops, without warning about config sections
TDescendNested ==
    /\ pc = "descend"
    /\ stack # <<>>
    /\ IF node.cfg.submodules # EmptyMap
       THEN /\ stack' = Append(stack,
                   Frame(node.cfg, node.loc, node.label,
                         collect_all_repos(fs, node.loc)))
            /\ stderr' = stderr \o list_submodules_stderr(fs, node.loc)
       ELSE /\ stack' = stack
            /\ stderr' = stderr
    /\ pc' = "iter"
    /\ UNCHANGED <<config, node, remotes, visits, pre, local, actions, result,
                   extop, ext>>
    /\ UNCHANGED treeFrame

\* the innermost loop without its first sub_repo
Advance(st) ==
    [st EXCEPT ![Len(st)].subs = Tail(st[Len(st)].subs)]

\* the loop body for a sub_repo whose path has a config section: the
\* "Submodule:" heading; its sync_one_repo comes next
TMatch ==
    /\ pc = "iter"
    /\ stack # <<>>
    /\ LET top == stack[Len(stack)]
       IN /\ top.subs # <<>>
          /\ LET sub == Head(top.subs)
             IN /\ sub.path \in DOMAIN top.cfg.submodules
                /\ node' = [loc |-> sub.repo,
                            parent |-> top.base,
                            label |-> top.label \o sub.path,
                            cfg |-> top.cfg.submodules[sub.path]]
    /\ stack' = Advance(stack)
    /\ pc' = "sync"
    /\ UNCHANGED <<config, remotes, visits, pre, local, actions, result, stderr,
                   extop, ext>>
    /\ UNCHANGED treeFrame

\* the loop treating a sub_repo without config section as if its parent's
\* section were its own
TSkip_reconciles ==
    /\ pc = "iter"
    /\ stack # <<>>
    /\ LET top == stack[Len(stack)]
       IN /\ top.subs # <<>>
          /\ LET sub == Head(top.subs)
             IN /\ sub.path \notin DOMAIN top.cfg.submodules
                /\ node' = [loc |-> sub.repo,
                            parent |-> top.base,
                            label |-> top.label \o sub.path,
                            cfg |-> WithSubmodules(top.cfg, EmptyMap)]
    /\ stack' = Advance(stack)
    /\ pc' = "sync"
    /\ UNCHANGED <<config, remotes, visits, pre, local, actions, result, stderr,
                   extop, ext>>
    /\ UNCHANGED treeFrame

\* the loop body for a sub_repo without config section: the warning
\* "discovered repo ... has no config section (skipping)"
TSkip ==
    /\ pc = "iter"
    /\ stack # <<>>
    /\ LET top == stack[Len(stack)]
       IN /\ top.subs # <<>>
          /\ LET sub == Head(top.subs)
             IN /\ sub.path \notin DOMAIN top.cfg.submodules
                /\ stderr' = Append(stderr,
                      [warning |-> "discovered repo has no config section (skipping)",
                       name |-> top.label \o sub.path])
    /\ stack' = Advance(stack)
    /\ UNCHANGED <<config, node, remotes, visits, pre, local, actions, result,
                   pc, extop, ext>>
    /\ UNCHANGED treeFrame

\* the end of a loop over sub_repos: sync_submodules_recursive returns
\* Ok(()) to the loop that called it, cmd_sync returns Ok(())
TReturn ==
    /\ pc = "iter"
    /\ stack # <<>>
    /\ stack[Len(stack)].subs = <<>>
    /\ stack' = SubSeq(stack, 1, Len(stack) - 1)
    /\ IF Len(stack) = 1
       THEN pc' = "done" /\ result' = "ok"
       ELSE pc' = "iter" /\ result' = "none"
    /\ UNCHANGED <<config, node, remotes, visits, pre, local, actions, stderr,
                   extop, ext>>
    /\ UNCHANGED treeFrame

TreeNext ==
    \/ TLoad
    \/ TSync
    \/ TApply
    \/ TExternalCreate
    \/ TExternalDelete
    \/ TDescendRoot
    \/ TDescendNested
    \/ TMatch
    \/ TSkip
    \/ TReturn

SpecTree == TreeInit /\ [][TreeNext]_vars

(* ------------------------------ cmd_save ------------------------------- *)

\* main.rs save_one_repo: GemoteConfig::default() with the remotes of
\* list_remotes inserted
save_one_repo(r) ==
    LET l == list_remotes(r)
    IN [extra_remotes |-> "Ignore",
        remotes |-> [n \in DOMAIN l |->
                        [url |-> l[n].url, push_url |-> l[n].push_url]],
        submodules |-> EmptyMap]

\* BTreeMap::insert: the value replaces what the key held
Insert(map, key, value) ==
    [k \in DOMAIN map \cup {key} |-> IF k = key THEN value ELSE map[k]]

RECURSIVE SaveSubs(_, _, _, _)
RECURSIVE save_submodules_recursive(_, _, _)

\* the loop `for sub in &sub_repos` of cmd_save and of
\* save_submodules_recursive: save_one_repo on the sub-repository, the
\* recursion below it, and the insert under sub.path
SaveSubs(tree, rem, subs, map) ==
    IF subs = <<>>
    THEN map
    ELSE LET sub == Head(subs)
             sub_cfg == [save_one_repo(rem[sub.repo]) EXCEPT
                            !.submodules =
                                save_submodules_recursive(tree, rem, sub.repo)]
         IN SaveSubs(tree, rem, Tail(subs), Insert(map, sub.path, sub_cfg))

\* main.rs save_submodules_recursive: the submodules map it leaves in the
\* parent's config
save_submodules_recursive(tree, rem, parent) ==
    SaveSubs(tree, rem, collect_all_repos(tree, parent), EmptyMap)

RECURSIVE SaveWarn(_, _)
RECURSIVE save_stderr(_, _)

\* the loop over sub_repos: what the calls below each of them write to stderr
SaveWarn(tree, subs) ==
    IF subs = <<>>
    THEN <<>>
    ELSE save_stderr(tree, Head(subs).repo) \o SaveWarn(tree, Tail(subs))

\* what collect_all_repos on a repository and the recursion below it write
\* to stderr
save_stderr(tree, base) ==
    list_submodules_stderr(tree, base)
    \o SaveWarn(tree, collect_all_repos(tree, base))

\* the remotes a repository may hold before a save
SavedRemotes ==
    { EmptyMap,
      StaleOnly,
      [n \in {"origin"} |-> [url |-> URLS[1], push_url |-> URLS[2]]] }

\* working trees for save: all readable, libs/core possibly a submodule
\* registered under the name core
SaveWorlds ==
    [repos : {{<<>>} \cup R : R \in SUBSET TreeRepos},
     submodules : [{<<>>} -> {<<>>, <<Named(<<"core">>, LibsCore)>>}],
     unreadable : {{}},
     reversed : {TRUE}]

\* the config file before the save: none, or one written earlier
SaveFiles ==
    { [status |-> "missing", doc |-> serialize_config(save_one_repo(RepoOf(EmptyMap)))],
      [status |-> "ok", doc |-> serialize_config(save_one_repo(RepoOf(StaleOnly)))] }

SaveInit ==
    /\ config_file \in SaveFiles
    /\ save_args \in [overwrite : BOOLEAN, recursive : BOOLEAN]
    /\ fs \in SaveWorlds
    /\ \E m \in [fs.repos -> SavedRemotes] :
          remotes = [r \in fs.repos |-> RepoOf(m[r])]
    /\ remotes0 = remotes
    /\ dry_run = FALSE
    /\ recursive \in BOOLEAN
    /\ config = EmptyMap
    /\ pc = "save"
    /\ node = NoNode
    /\ stack = <<>>
    /\ visits = <<>>
    /\ pre = EmptyMap
    /\ local = EmptyMap
    /\ actions = <<>>
    /\ result = "none"
    /\ stderr = <<>>
    /\ extop = NoExt
    /\ ext = 0
    /\ found = NoFound
    /\ repo = RepoOf(EmptyMap)
    /\ idx = 1
    /\ log = <<>>
    /\ repo0 = repo
    /\ pass = 1
    /\ prev = [result |-> "none", repo |-> repo, applied |-> 0]

\* cmd_save writing the file whether or not it exists
SSave_always_writes ==
    /\ pc = "save"
    /\ LET root == save_one_repo(remotes[<<>>])
           cfg == IF save_args.recursive
                  THEN [root EXCEPT !.submodules =
                            save_submodules_recursive(fs, remotes, <<>>)]
                  ELSE root
       IN /\ config_file' = [status |-> "ok", doc |-> serialize_config(cfg)]
          /\ stderr' = IF save_args.recursive
                       THEN stderr \o save_stderr(fs, <<>>)
                       ELSE stderr
          /\ pc' = "start"
          /\ result' = "none"
          /\ pass' = pass + 1
    /\ remotes0' = remotes
    /\ UNCHANGED <<config, dry_run, recursive, fs, remotes, node, stack, visits,
                   pre, local, actions, extop, ext, found, save_args>>
    /\ UNCHANGED <<repo, idx, log, repo0, prev>>

\* main.rs cmd_save: the refusal when the file exists and --overwrite is not
\* given; otherwise save_one_repo on the root, with --recursive the configs
\* of all sub-repositories, serialize_config and the write of the file.  The
\* next command is then a sync.
SSave ==
    /\ pc = "save"
    /\ IF config_file.status # "missing" /\ ~save_args.overwrite
       THEN /\ config_file' = config_file
            /\ stderr' = stderr
            /\ pc' = "done"
            /\ result' = "err"
            /\ pass' = pass
       ELSE LET root == save_one_repo(remotes[<<>>])
                cfg == IF save_args.recursive
                       THEN [root EXCEPT !.submodules =
                                 save_submodules_recursive(fs, remotes, <<>>)]
                       ELSE root
            IN /\ config_file' = [status |-> "ok", doc |-> serialize_config(cfg)]
               /\ stderr' = IF save_args.recursive
                            THEN stderr \o save_stderr(fs, <<>>)
                            ELSE stderr
               /\ pc' = "start"
               /\ result' = "none"
               /\ pass' = pass + 1
    /\ remotes0' = remotes
    /\ UNCHANGED <<config, dry_run, recursive, fs, remotes, node, stack, visits,
                   pre, local, actions, extop, ext, found, save_args>>
    /\ UNCHANGED <<repo, idx, log, repo0, prev>>

\* between the save and the sync somebody runs `git remote remove` in one of
\* the repositories
RemoteDeleted ==
    /\ pc = "start"
    /\ pass > 1
    /\ \E r \in fs.repos, n \in Names :
          /\ Exists(remotes[r], n)
          /\ remotes' = [remotes EXCEPT ![r][n] = NoRemote]
    /\ ext' = ext + 1
    /\ UNCHANGED <<config, pc, node, stack, visits, pre, local, actions, result,
                   stderr, extop>>
    /\ UNCHANGED treeFrame

SaveNext ==
    \/ SSave
    \/ RemoteDeleted
    \/ TLoad
    \/ TSync
    \/ TApply
    \/ TDescendRoot
    \/ TDescendNested
    \/ TMatch
    \/ TSkip
    \/ TReturn

SpecSave == SaveInit /\ [][SaveNext]_vars

(* ------------------- sync --dry-run, then sync ------------------------- *)

\* the [submodules."..."] sections of the documents below
PairSections ==
    { WithSubmodules([extra_remotes |-> "Ignore", remotes |-> EmptyMap], EmptyMap),
      WithSubmodules([extra_remotes |-> "Warn", remotes |-> OriginOnly], EmptyMap),
      WithSubmodules([extra_remotes |-> "Remove", remotes |-> OriginOnly], EmptyMap) }

\* documents with sections keyed core and libs/core
PairTrees ==
    {WithSubmodules(s, m) :
        s \in RootSettings, m \in PartialMaps({<<"core">>, LibsCore}, PairSections)}

\* working trees with libs/core and vendor, libs/core possibly a submodule
\* registered under the name core
PairWorlds ==
    [repos : {{<<>>} \cup R : R \in SUBSET {LibsCore, Vendor}},
     submodules : [{<<>>} -> {<<>>, <<Named(<<"core">>, LibsCore)>>}],
     unreadable : {{}},
     reversed : {TRUE}]

PairInit ==
    /\ config_file \in [status : {"ok"}, doc : {serialize_config(c) : c \in PairTrees}]
    /\ save_args = NoSave
    /\ fs \in PairWorlds
    /\ remotes \in [fs.repos -> {RepoOf(EmptyMap), RepoOf(StaleOnly)}]
    /\ remotes0 = remotes
    /\ dry_run = TRUE
    /\ recursive \in BOOLEAN
    /\ config = EmptyMap
    /\ pc = "start"
    /\ node = NoNode
    /\ stack = <<>>
    /\ visits = <<>>
    /\ pre = EmptyMap
    /\ local = EmptyMap
    /\ actions = <<>>
    /\ result = "none"
    /\ stderr = <<>>
    /\ extop = NoExt
    /\ ext = 0
    /\ found = NoFound
    /\ repo = RepoOf(EmptyMap)
    /\ idx = 1
    /\ log = <<>>
    /\ repo0 = repo
    /\ pass = 1
    /\ prev = [result |-> "none", stderr |-> <<>>, visits |-> <<>>]

\* main.rs main: after `gemote sync --dry-run` has ended, the same command
\* is run without --dry-run on the same config and working tree
RunForReal ==
    /\ pc = "done"
    /\ dry_run
    /\ dry_run' = FALSE
    /\ pass' = pass + 1
    /\ prev' = [result |-> result, stderr |-> stderr, visits |-> visits]
    /\ pc' = "start"
    /\ config' = EmptyMap
    /\ node' = NoNode
    /\ stack' = <<>>
    /\ visits' = <<>>
    /\ pre' = EmptyMap
    /\ local' = EmptyMap
    /\ actions' = <<>>
    /\ result' = "none"
    /\ stderr' = <<>>
    /\ UNCHANGED <<recursive, fs, remotes, remotes0, config_file, save_args,
                   found, repo, idx, log, repo0, extop, ext>>

PairNext ==
    \/ TLoad
    \/ TSync
    \/ TApply
    \/ TDescendRoot
    \/ TDescendNested
    \/ TMatch
    \/ TSkip
    \/ TReturn
    \/ RunForReal

SpecPair == PairInit /\ [][PairNext]_vars

(* ------------------------ properties: one pass ------------------------- *)

\* sync_one_repo has taken its snapshot and computed its actions
Diffed == pc # "start"

\* the indices of the computed actions that target remote n
ActionsFor(n) == {i \in 1..Len(actions) : actions[i].name = n}

\* remote n of the repository is exactly what the config declares for it
Matches(r, n) ==
    /\ r[n].url = config.remotes[n].url
    /\ r[n].pushurl = config.remotes[n].push_url

\* C1: when a non-dry-run pass (list_remotes, compute_diff, apply_actions)
\* returns success and no other process touched the repository during it,
\* every remote the config names exists with exactly the configured url and
\* exactly the configured push_url (none when the config declares none).
C1_ConfiguredRemotesInPlace ==
    (pc = "done" /\ result = "ok" /\ ~dry_run /\ extop = NoExt)
        => \A n \in DOMAIN config.remotes : Exists(repo, n) /\ Matches(repo, n)

\* a successful pass that added a remote with a push URL and updated another
C1_Witness ==
    /\ pc = "done" /\ result = "ok" /\ ~dry_run /\ extop = NoExt
    /\ \E i \in 1..Len(log) : actions[i].kind = "Add" /\ actions[i].push_url # None
    /\ \E i \in 1..Len(log) : actions[i].kind = "UpdateUrl"

\* the snapshot holds every configured remote with the configured values
LocalEqualsDesired ==
    \A n \in DOMAIN config.remotes :
        /\ n \in DOMAIN local
        /\ local[n].url = config.remotes[n].url
        /\ local[n].push_url = config.remotes[n].push_url

\* a remote of the snapshot that the policy Remove deletes
ExtraTriggersRemove ==
    /\ config.extra_remotes = "Remove"
    /\ \E n \in DOMAIN local : n \notin DOMAIN config.remotes

\* C2: compute_diff(config, L) is empty iff L holds every configured remote
\* with the same url and push_url and no key of L outside the config
\* triggers Remove under the active policy.
C2_EmptyDiffIffInSync ==
    Diffed => ((actions = <<>>) <=> (LocalEqualsDesired /\ ~ExtraTriggersRemove))

\* an empty diff although the snapshot has a remote the config lacks
C2_Witness ==
    /\ Diffed
    /\ actions = <<>>
    /\ DOMAIN config.remotes # {}
    /\ \E n \in DOMAIN local : n \notin DOMAIN config.remotes

\* C3: one pass reaches a fixed point: after a pass applied all its actions
\* with no mutation by another process, the next run of the command computes
\* no actions and leaves the repository as it was.
C3_SecondPassIsEmpty ==
    (pass >= 2 /\ pc = "done" /\ prev.result = "ok" /\ ~dry_run /\ ext = 0)
        => (actions = <<>> /\ log = <<>> /\ repo = prev.repo /\ result = "ok")

\* a second run after a first one that applied at least two actions
C3_Witness ==
    /\ pass = 2 /\ pc = "done" /\ prev.result = "ok" /\ ~dry_run /\ ext = 0
    /\ prev.applied >= 2

\* C4: exactly one Add, with the config's url and push_url, for each
\* configured name absent from local, and no other action for that name; no
\* Add for a name present in local.
C4_AddForAbsent ==
    Diffed =>
        \A n \in Names :
            /\ (n \in DOMAIN config.remotes /\ n \notin DOMAIN local)
                => /\ Cardinality(ActionsFor(n)) = 1
                   /\ \A i \in ActionsFor(n) :
                        actions[i] = Add(n, config.remotes[n].url,
                                         config.remotes[n].push_url)
            /\ (n \in DOMAIN local)
                => \A i \in ActionsFor(n) : actions[i].kind # "Add"

\* an Add carrying a push URL next to a configured remote that is present
C4_Witness ==
    /\ Diffed
    /\ \E i \in 1..Len(actions) :
          actions[i].kind = "Add" /\ actions[i].push_url # None
    /\ \E n \in DOMAIN config.remotes : n \in DOMAIN local

\* the update actions compute_diff owes a remote present on both sides
UpdatesOwed(n) ==
    (IF local[n].url # config.remotes[n].url
     THEN {UpdateUrl(n, local[n].url, config.remotes[n].url)}
     ELSE {})
    \cup
    (IF local[n].push_url # config.remotes[n].push_url
     THEN {UpdatePushUrl(n, local[n].push_url, config.remotes[n].push_url)}
     ELSE {})

\* C5: for a configured remote present in local, UpdateUrl{old = local url,
\* new = config url} is emitted iff the urls differ and UpdatePushUrl{old =
\* local push_url, new = config push_url} iff the push_urls differ as
\* optional values; two separate actions when both differ, only the one that
\* differs otherwise.
C5_IndependentUpdates ==
    Diffed =>
        \A n \in DOMAIN config.remotes \cap DOMAIN local :
            /\ {actions[i] : i \in ActionsFor(n)} = UpdatesOwed(n)
            /\ Cardinality(ActionsFor(n)) = Cardinality(UpdatesOwed(n))

\* one remote gets both updates, the push URL going from some to none
C5_Witness ==
    /\ Diffed
    /\ \E i, j \in 1..Len(actions) :
          /\ actions[i].name = actions[j].name
          /\ actions[i].kind = "UpdateUrl"
          /\ actions[j].kind = "UpdatePushUrl"
          /\ actions[j].old # None
          /\ actions[j].new = None

\* the diagnostics of this run that name remote n
WarningsFor(n) == {i \in 1..Len(stderr) : stderr[i].name = n}

\* C6: for a local remote x absent from the config, Ignore emits no action
\* and no diagnostic for x, Warn emits no action and one diagnostic naming
\* x, Remove emits exactly one Remove{x}; no policy emits a Remove for a
\* name the config declares.
C6_ExtraRemotePolicy ==
    Diffed =>
        /\ \A x \in DOMAIN local \ DOMAIN config.remotes :
            /\ config.extra_remotes = "Ignore"
                => ActionsFor(x) = {} /\ WarningsFor(x) = {}
            /\ config.extra_remotes = "Warn"
                => ActionsFor(x) = {} /\ Cardinality(WarningsFor(x)) = 1
            /\ config.extra_remotes = "Remove"
                => /\ Cardinality(ActionsFor(x)) = 1
                   /\ \A i \in ActionsFor(x) : actions[i] = Remove(x)
        /\ \A n \in DOMAIN config.remotes :
            \A i \in ActionsFor(n) : actions[i].kind # "Remove"

\* policy Warn with one extra remote, next to actions for a configured one
C6_Witness ==
    /\ Diffed
    /\ config.extra_remotes = "Warn"
    /\ Len(stderr) = 1
    /\ actions # <<>>

\* C7: the actions for configured remotes come in ascending order of name,
\* UpdateUrl before UpdatePushUrl for one name, and every Remove comes after
\* all Add/UpdateUrl/UpdatePushUrl actions, the Removes in ascending order
\* of name.
C7_ActionOrder ==
    Diffed =>
        \A i, j \in 1..Len(actions) :
            i < j =>
                /\ (actions[i].kind # "Remove" /\ actions[j].kind # "Remove")
                    => \/ Rank(actions[i].name) < Rank(actions[j].name)
                       \/ /\ actions[i].name = actions[j].name
                          /\ actions[i].kind = "UpdateUrl"
                          /\ actions[j].kind = "UpdatePushUrl"
                /\ actions[i].kind = "Remove"
                    => /\ actions[j].kind = "Remove"
                       /\ Rank(actions[i].name) < Rank(actions[j].name)

\* both updates of a later name precede the Remove of an earlier name
C7_Witness ==
    /\ Diffed
    /\ Len(actions) = 3
    /\ actions[1].kind = "UpdateUrl"
    /\ actions[2].kind = "UpdatePushUrl"
    /\ actions[3].kind = "Remove"
    /\ Rank(actions[3].name) < Rank(actions[1].name)

RECURSIVE ApplyAll(_, _)
\* the repository after the given actions all took effect, in order
ApplyAll(r, acts) ==
    IF acts = <<>> THEN r ELSE ApplyAll(apply_action(r, Head(acts)).repo, Tail(acts))

\* C8: apply_actions is sequential and non-transactional: the actions are
\* attempted in sequence order; when the k-th fails the call returns an
\* error, the effects of actions 1..k-1 stay in the repository and actions
\* k+1.. are never attempted; when none fails all have been executed in
\* order and the call returns success.
C8_SequentialNoRollback ==
    /\ \A i \in 1..Len(log) :
          /\ log[i].idx = i
          /\ i < Len(log) => log[i].ok
    /\ result = "err"
          => /\ pc = "done"
             /\ log # <<>>
             /\ ~log[Len(log)].ok
             /\ repo = ApplyAll(repo0, SubSeq(actions, 1, Len(log) - 1))
    /\ (pc = "done" /\ result = "ok" /\ ~dry_run)
          => /\ Len(log) = Len(actions)
             /\ \A i \in 1..Len(log) : log[i].ok
             /\ repo = ApplyAll(repo0, actions)

\* the second of three actions failed after the first one took effect
C8_Witness ==
    /\ result = "err"
    /\ Len(log) = 2
    /\ Len(actions) = 3
    /\ repo # repo0

\* apply_actions is about to run an Add for a name the repository holds
AddOnExisting ==
    /\ pc = "apply" /\ idx <= Len(actions)
    /\ actions[idx].kind = "Add"
    /\ Exists(repo, actions[idx].name)

\* apply_actions is about to run a Remove for a name the repository lacks
RemoveOnMissing ==
    /\ pc = "apply" /\ idx <= Len(actions)
    /\ actions[idx].kind = "Remove"
    /\ ~Exists(repo, actions[idx].name)

\* C9: applying Add{name} to a repository that already has a remote called
\* name fails and leaves that remote's url and push_url unchanged; applying
\* Remove{name} to a repository without that remote fails and leaves the
\* remote set unchanged.
C9_AddExistingRemoveMissingFail ==
    [][((AddOnExisting \/ RemoveOnMissing) /\ log' # log)
            => (result' = "err" /\ repo' = repo)]_vars

\* an Add failed on a remote another process had created with another url
C9_Witness ==
    /\ result = "err"
    /\ actions[idx].kind = "Add"
    /\ Exists(repo, actions[idx].name)
    /\ repo[actions[idx].name].url # actions[idx].url

\* the mutation of the other process conflicts with a computed action
Conflict ==
    \/ /\ extop.kind = "create"
       /\ \E i \in 1..Len(actions) :
             actions[i].kind = "Add" /\ actions[i].name = extop.name
    \/ /\ extop.kind = "delete"
       /\ \E i \in 1..Len(actions) :
             /\ actions[i].kind \in {"UpdateUrl", "UpdatePushUrl", "Remove"}
             /\ actions[i].name = extop.name

\* C10: when another process, between the snapshot and apply_actions,
\* creates a remote the diff Adds or deletes a remote the diff Updates or
\* Removes, the pass returns an apply-time error.
C10_ConflictIsError ==
    (pc = "done" /\ Conflict) => result = "err"

\* the names of the remotes the repository holds
RemoteNames(r) == {n \in Names : Exists(r, n)}

\* C11: extra remotes are touched only under Remove: after a successful
\* pass under Ignore or Warn every snapshot remote the config does not name
\* is still there with the same url and push_url; after a successful pass
\* under Remove the repository's remote names are exactly the config's.
C11_ExtrasOnlyUnderRemove ==
    (pc = "done" /\ result = "ok" /\ ~dry_run /\ extop = NoExt)
        => /\ config.extra_remotes \in {"Ignore", "Warn"}
                => \A x \in DOMAIN local \ DOMAIN config.remotes :
                        /\ Exists(repo, x)
                        /\ list_remotes(repo)[x] = local[x]
           /\ config.extra_remotes = "Remove"
                => RemoteNames(repo) = DOMAIN config.remotes

\* a successful pass under Remove that added one remote and removed another
C11_Witness ==
    /\ pc = "done" /\ result = "ok" /\ ~dry_run /\ extop = NoExt
    /\ config.extra_remotes = "Remove"
    /\ \E i \in 1..Len(log) : actions[i].kind = "Remove"
    /\ \E i \in 1..Len(log) : actions[i].kind = "Add"

\* the kinds of the computed actions that target remote n
KindsFor(n) == {actions[i].kind : i \in ActionsFor(n)}

\* the computed actions of the given kind that target remote n
OfKind(n, kind) == {i \in ActionsFor(n) : actions[i].kind = kind}

\* C30: the sequence compute_diff returns is applicable to the snapshot it
\* was computed from: a name absent from local and configured is targeted by
\* exactly one Add and nothing else; a name present in local and configured
\* by at most one UpdateUrl and at most one UpdatePushUrl and nothing else; a
\* name present in local and not configured by at most one Remove (exactly
\* one under the Remove policy) and nothing else; any other name by nothing.
\* Hence a pass that no other process interfered with never ends in an error.
C30_DiffIsApplicable ==
    /\ Diffed =>
          \A n \in Names :
              /\ (n \notin DOMAIN local /\ n \in DOMAIN config.remotes)
                    => KindsFor(n) = {"Add"} /\ Cardinality(ActionsFor(n)) = 1
              /\ (n \in DOMAIN local /\ n \in DOMAIN config.remotes)
                    => /\ KindsFor(n) \subseteq {"UpdateUrl", "UpdatePushUrl"}
                       /\ Cardinality(OfKind(n, "UpdateUrl")) <= 1
                       /\ Cardinality(OfKind(n, "UpdatePushUrl")) <= 1
              /\ (n \in DOMAIN local /\ n \notin DOMAIN config.remotes)
                    => /\ KindsFor(n) \subseteq {"Remove"}
                       /\ Cardinality(ActionsFor(n)) <= 1
                       /\ config.extra_remotes = "Remove"
                             => Cardinality(ActionsFor(n)) = 1
              /\ (n \notin DOMAIN local /\ n \notin DOMAIN config.remotes)
                    => ActionsFor(n) = {}
    /\ (Diffed /\ extop = NoExt)
          => /\ result # "err"
             /\ \A i \in 1..Len(log) : log[i].ok

\* a pass without interference that applied both updates of one remote and
\* the Remove of another
C30_Witness ==
    /\ pc = "done" /\ result = "ok" /\ ~dry_run /\ extop = NoExt
    /\ Len(log) = 3
    /\ Len(actions) = 3
    /\ actions[3].kind = "Remove"
    /\ \E n \in Names :
          /\ OfKind(n, "UpdateUrl") # {}
          /\ OfKind(n, "UpdatePushUrl") # {}

(* ------------------------ properties: discovery ------------------------ *)

\* C19: the sequence one call of collect_all_repos returns is sorted in
\* ascending order of path and its paths are pairwise distinct.
C19_DistinctSortedPaths ==
    (found.done /\ found.call = "collect") =>
        \A i, j \in 1..Len(found.all) :
            i < j => PathLt(found.all[i].path, found.all[j].path)

\* a result with a scanned repository that sorts before a registered one
C19_Witness ==
    /\ found.done
    /\ found.call = "collect"
    /\ fs.reversed
    /\ Len(found.all) >= 3
    /\ \E i, j \in 1..Len(found.all) :
          /\ i < j
          /\ found.all[i].src = "scan"
          /\ found.all[j].src = "submodule"

\* the repositories the scan alone finds below base
Scanned(base) ==
    LET nested == discover_nested_repos(fs, base, {})
    IN {nested[i].repo : i \in 1..Len(nested)}

\* the repositories that are registered submodules of base and open
RegisteredRepos(base) ==
    LET subs == SubmodulesOf(fs, base)
    IN {base \o subs[i].path : i \in 1..Len(subs)} \cap fs.repos

\* C20: a nested repository that is a registered sub-repository of the
\* parent and also findable by the filesystem scan is returned exactly once,
\* as the registered entry.
C20_RegisteredEntryWins ==
    (found.done /\ found.call = "collect") =>
        \A p \in RegisteredRepos(found.base) \cap Scanned(found.base) :
            /\ Cardinality({i \in 1..Len(found.all) : found.all[i].repo = p}) = 1
            /\ \A i \in 1..Len(found.all) :
                  found.all[i].repo = p => found.all[i].src = "submodule"

(* ---------------------- properties: the recursive walk ----------------- *)

\* path p lies strictly below path q
Below(p, q) == Len(p) > Len(q) /\ SubSeq(p, 1, Len(q)) = q

\* sync_one_repo was called on the repository at loc
Visited(loc) == \E i \in 1..Len(visits) : visits[i].loc = loc

\* C12: a dry run never mutates any repository: with dry_run set, the
\* remotes of the root and of every nested repository (visited or not) are,
\* at every point of the run, the remotes the run started with, whatever
\* actions the diffs computed and reported.
C12_DryRunMutatesNothing ==
    dry_run => remotes = remotes0

\* a finished dry run that reported actions for the root and for a nested
\* repository two levels down
C12_Witness ==
    /\ dry_run
    /\ pc = "done"
    /\ result = "ok"
    /\ \E i, j \in 1..Len(visits) :
          /\ visits[i].loc = <<>>
          /\ visits[i].actions # <<>>
          /\ Len(visits[j].label) = 3
          /\ Len(visits[j].actions) = 2

RECURSIVE Declared(_, _)
\* the nested repositories that a chain of config sections leads to: those
\* discovered from base whose path has an entry in cfg.submodules, and from
\* each of them on with its own section
Declared(cfg, base) ==
    LET sub_repos == collect_all_repos(fs, base)
        matched == {i \in 1..Len(sub_repos) :
                        sub_repos[i].path \in DOMAIN cfg.submodules}
    IN UNION {{sub_repos[i].repo}
              \cup Declared(cfg.submodules[sub_repos[i].path], sub_repos[i].repo) :
              i \in matched}

\* the nested repositories no chain of config sections leads to
Undeclared == fs.repos \ ({<<>>} \cup Declared(from_str(config_file.doc), <<>>))

\* stderr holds the "no config section" warning for the label
SkippedWarning(label) ==
    \E i \in 1..Len(stderr) :
        /\ stderr[i].warning = "discovered repo has no config section (skipping)"
        /\ stderr[i].name = label

\* C13: a discovered nested repository whose path has no entry in the
\* parent config node's submodules mapping is never reconciled: sync_one_repo
\* is not called on it nor on any repository below it and their remotes stay
\* as they were, whatever the parent's policy; the root has been reconciled
\* before, and its apply ran in full.
C13_UndeclaredNeverReconciled ==
    /\ \A r \in Undeclared : ~Visited(r) /\ remotes[r] = remotes0[r]
    /\ (\E i \in 1..Len(stderr) :
            stderr[i].warning = "discovered repo has no config section (skipping)")
          => /\ visits # <<>>
             /\ visits[1].loc = <<>>
             /\ visits[1].ok
             /\ ~dry_run => visits[1].applied = Len(visits[1].actions)

\* libs/core holds a stale remote and a repository below it, the root's
\* policy is Remove and the root's own stale remote was removed, libs/core
\* has no config section and was skipped
C13_Witness ==
    /\ pc = "done"
    /\ result = "ok"
    /\ ~dry_run
    /\ config.extra_remotes = "Remove"
    /\ {LibsCore, <<"libs", "core", "sub">>} \subseteq Undeclared
    /\ remotes0[LibsCore] = RepoOf(StaleOnly)
    /\ SkippedWarning(LibsCore)
    /\ visits[1].applied = 2
    /\ Visited(Vendor)

\* stderr holds the "no matching repo" warning for the label
MissingWarning(label) ==
    \E i \in 1..Len(stderr) :
        /\ stderr[i].warning = "config has submodule section but no matching repo found"
        /\ stderr[i].name = label

\* the paths collect_all_repos returns for the repository at loc
DiscoveredPaths(loc) ==
    LET sub_repos == collect_all_repos(fs, loc)
    IN {sub_repos[i].path : i \in 1..Len(sub_repos)}

\* C14: when a recursive sync has ended without error, for every node it
\* reconciled (the root and every matched nested repository) each entry of
\* that node's submodules mapping whose path matches no repository
\* discovered at that node has a "configured but repository not found"
\* diagnostic on stderr.
C14_MissingRepoDiagnosed ==
    (pc = "done" /\ result = "ok" /\ recursive)
        => \A i \in 1..Len(visits) :
              \A k \in DOMAIN visits[i].cfg.submodules \ DiscoveredPaths(visits[i].loc) :
                  MissingWarning(visits[i].label \o k)

\* C15: when a recursive sync has ended without error, for every node it
\* reconciled (also one whose submodules mapping is empty) each repository
\* discovered directly below it whose path has no entry in that mapping has
\* a "found but not configured" diagnostic on stderr.
C15_UnconfiguredRepoDiagnosed ==
    (pc = "done" /\ result = "ok" /\ recursive)
        => \A i \in 1..Len(visits) :
              \A k \in DiscoveredPaths(visits[i].loc) \ DOMAIN visits[i].cfg.submodules :
                  SkippedWarning(visits[i].label \o k)

\* the visit of the repository at loc
VisitOf(loc) == visits[CHOOSE i \in 1..Len(visits) : visits[i].loc = loc]

\* C16: when the reconciliation of a nested repository has failed, every
\* repository discovered by the same parent whose path has an entry in the
\* parent's submodules mapping has been visited by the time the command ends.
C16_SiblingsStillVisited ==
    pc = "done"
        => \A i \in 1..Len(visits) :
              (~visits[i].ok /\ visits[i].loc # <<>>)
                  => LET parent == VisitOf(visits[i].parent)
                         sub_repos == collect_all_repos(fs, parent.loc)
                     IN \A j \in 1..Len(sub_repos) :
                           sub_repos[j].path \in DOMAIN parent.cfg.submodules
                               => Visited(sub_repos[j].repo)

\* C17: when apply has failed at a node, no repository nested below that
\* node is reconciled in that run (sync_one_repo is not called on it and its
\* remotes stay as they were), and the node's repository holds what the
\* actions applied before the failure made of it.
C17_FailureStopsDescentKeepsEffects ==
    \A i \in 1..Len(visits) :
        ~visits[i].ok
            => /\ \A r \in fs.repos :
                     Below(r, visits[i].loc)
                         => ~Visited(r) /\ remotes[r] = remotes0[r]
               /\ remotes[visits[i].loc]
                     = ApplyAll(pre, SubSeq(visits[i].actions, 1, visits[i].applied))

\* the apply at libs/core failed at its second action after adding origin;
\* libs/core/sub has a config section and a stale remote to remove
C17_Witness ==
    /\ pc = "done"
    /\ result = "err"
    /\ Len(visits) = 2
    /\ visits[2].loc = LibsCore
    /\ ~visits[2].ok
    /\ visits[2].applied = 1
    /\ Exists(remotes[LibsCore], "origin")
    /\ ~Exists(remotes0[LibsCore], "origin")
    /\ <<"libs", "core", "sub">> \in fs.repos
    /\ <<"sub">> \in DOMAIN visits[2].cfg.submodules
    /\ visits[2].cfg.submodules[<<"sub">>].extra_remotes = "Remove"
    /\ remotes0[<<"libs", "core", "sub">>] = RepoOf(StaleOnly)

\* C18: a config file that is missing or malformed is fatal before any
\* reconciliation: the command ends with an error, sync_one_repo has not been
\* called on any repository, and the remotes of the root and of every nested
\* repository are as they were.
C18_ConfigErrorIsFatalFirst ==
    config_file.status \in {"missing", "malformed"}
        => /\ visits = <<>>
           /\ remotes = remotes0
           /\ pc = "done" => result = "err"

\* the command has ended on a malformed document that asks for Remove, run
\* with --recursive and without --dry-run on a root with a stale remote
C18_Witness ==
    /\ config_file.status = "malformed"
    /\ from_str(config_file.doc).extra_remotes = "Remove"
    /\ pc = "done"
    /\ result = "err"
    /\ recursive
    /\ ~dry_run
    /\ remotes[<<>>] = RepoOf(StaleOnly)

(* ------------------- properties: discovery, continued ------------------ *)

\* a repository lies strictly between base and path
RepoBetween(base, path) ==
    \E k \in (Len(base) + 1)..(Len(path) - 1) : SubSeq(path, 1, k) \in fs.repos

\* a component of path below base starts with '.'
HiddenBelow(base, path) ==
    \E k \in (Len(base) + 1)..Len(path) : path[k] \in HiddenSegs

\* read_dir fails on base or on a directory between base and path
UnreadableAbove(base, path) ==
    \E k \in Len(base)..(Len(path) - 1) : SubSeq(path, 1, k) \in fs.unreadable

\* a prefix of path below base is one of the known paths
KnownAbove(base, path, known) ==
    \E k \in (Len(base) + 1)..Len(path) :
        SubSeq(path, Len(base) + 1, k) \in known

\* the repositories of the returned entries
FoundRepos == {found.all[i].repo : i \in 1..Len(found.all)}

\* C21: a filesystem discovery call returns a nested repository only if no
\* directory strictly between the scanned root and it is a repository; a
\* repository inside a returned repository is therefore not returned, and a
\* call scoped to any repository (the inner one too) returns each repository
\* below it that no other repository, hidden directory, unreadable directory
\* or known path separates from it, at its path relative to that root.
C21_GitBoundary ==
    (found.done /\ found.call = "scan") =>
        /\ \A i \in 1..Len(found.all) :
              /\ Below(found.all[i].repo, found.base)
              /\ found.all[i].repo \in fs.repos
              /\ ~RepoBetween(found.base, found.all[i].repo)
        /\ \A r \in fs.repos :
              (/\ Below(r, found.base)
               /\ ~RepoBetween(found.base, r)
               /\ ~HiddenBelow(found.base, r)
               /\ ~UnreadableAbove(found.base, r)
               /\ ~KnownAbove(found.base, r, found.known))
                  => \E i \in 1..Len(found.all) :
                        /\ found.all[i].repo = r
                        /\ found.all[i].path = Rel(found.base, r)

\* the call scoped to libs/core returns libs/core/sub as "sub"; the outer
\* formula covers the call on the root, which returns libs/core only
C21_Witness ==
    /\ found.done
    /\ found.call = "scan"
    /\ found.base = LibsCore
    /\ Len(found.all) = 1
    /\ found.all[1].path = <<"sub">>
    /\ found.all[1].repo = <<"libs", "core", "sub">>

\* C22: the scan never reports a directory whose name begins with '.' and
\* never descends into one: no repository at or below such a directory
\* (relative to the scanned root) is in the result of discover_nested_repos.
C22_HiddenNeverReported ==
    (found.done /\ found.call = "scan") =>
        \A i \in 1..Len(found.all) :
            /\ \A k \in (Len(found.base) + 1)..Len(found.all[i].repo) :
                  found.all[i].repo[k] # ".hidden"
            /\ \A k \in 1..Len(found.all[i].path) :
                  found.all[i].path[k] # ".hidden"

\* the root holds repositories at .hidden and .hidden/core and a visible
\* one; the scan of the root returned the visible one only
C22_Witness ==
    /\ found.done
    /\ found.call = "scan"
    /\ found.base = <<>>
    /\ {<<".hidden">>, <<".hidden", "core">>, Vendor} \subseteq fs.repos
    /\ found.known = {}
    /\ Vendor \in FoundRepos

\* the working tree with only the submodules registered that open
OpenOnly(base) ==
    [fs EXCEPT !.submodules =
        [b \in DOMAIN fs.submodules |->
            SelectSeq(fs.submodules[b], LAMBDA sub : b \o sub.path \in fs.repos)]]

\* the registered submodules of base that do not open
Unopened(base) ==
    {i \in 1..Len(SubmodulesOf(fs, base)) :
        base \o SubmodulesOf(fs, base)[i].path \notin fs.repos}

\* C27: a registered sub-repository that cannot be opened is skipped with a
\* diagnostic and is no failure: collect_all_repos returns success, stderr
\* names the skipped submodule, every registered sub-repository that opens
\* is returned as a registered entry, and the result is what discovery
\* returns when the unopened submodule is not registered at all (so every
\* filesystem-discovered repository is still there).
C27_UnopenedSubmoduleSkipped ==
    (found.done /\ found.call = "collect") =>
        /\ result = "ok"
        /\ \A i \in Unopened(found.base) :
              \E k \in 1..Len(stderr) :
                  /\ stderr[k].warning = "skipping uninitialized submodule"
                  /\ stderr[k].name = SubmodulesOf(fs, found.base)[i].name
        /\ \A i \in 1..Len(SubmodulesOf(fs, found.base)) \ Unopened(found.base) :
              \E k \in 1..Len(found.all) :
                  /\ found.all[k].repo = found.base \o SubmodulesOf(fs, found.base)[i].path
                  /\ found.all[k].src = "submodule"
        /\ found.all = collect_all_repos(OpenOnly(found.base), found.base)

\* libs/core is registered and does not open, vendor is registered behind
\* it and opens, libs is a nested repository of its own: one warning, and
\* the result has vendor as a registered entry and libs from the scan
C27_Witness ==
    /\ found.done
    /\ found.call = "collect"
    /\ found.base = <<>>
    /\ fs.submodules[<<>>] = <<Registered(LibsCore), Registered(Vendor)>>
    /\ LibsCore \notin fs.repos
    /\ Vendor \in fs.repos
    /\ <<"libs">> \in fs.repos
    /\ Len(stderr) = 1
    /\ Len(found.all) = 2

C29_PathIsRelativeLocation ==
    found.done =>
        \A i \in 1..Len(found.all) :
            found.all[i].path = Rel(found.base, found.all[i].repo)

(* --------------------------- properties: save -------------------------- *)

\* the remotes of a repository as a config's remotes section would hold them
RemoteConfigOf(r) ==
    [n \in RemoteNames(r) |-> [url |-> r[n].url, push_url |-> r[n].pushurl]]

\* the config file holds, for the root and (with --recursive) for every
\* sub-repository discovery returns for the root, the remotes of rem
FileRecords(file, rem) ==
    LET cfg == from_str(file.doc)
        sub_repos == collect_all_repos(fs, <<>>)
    IN /\ file.status = "ok"
       /\ cfg.remotes = RemoteConfigOf(rem[<<>>])
       /\ save_args.recursive
             => \A i \in 1..Len(sub_repos) :
                   /\ sub_repos[i].path \in DOMAIN cfg.submodules
                   /\ cfg.submodules[sub_repos[i].path].remotes
                         = RemoteConfigOf(rem[sub_repos[i].repo])

RECURSIVE Discovered(_)
\* the repositories discovery leads to from base, level by level
Discovered(base) ==
    LET sub_repos == collect_all_repos(fs, base)
    IN UNION {{sub_repos[i].repo} \cup Discovered(sub_repos[i].repo) :
              i \in 1..Len(sub_repos)}

\* the repositories a save followed by a sync covers
Covered ==
    IF save_args.recursive /\ recursive
    THEN {<<>>} \cup Discovered(<<>>)
    ELSE {<<>>}

\* C24: save then sync is a round trip: after a save recorded the remotes
\* (of the root, and with --recursive on both commands of every discovered
\* nested repository) and remotes were deleted afterwards, a successful sync
\* from the saved file leaves every recorded remote with its saved url and
\* push_url; a sync right after the save computes no actions.
C24_SaveSyncRoundTrip ==
    /\ (pass = 2 /\ pc = "done" /\ result = "ok")
          => \A r \in Covered :
                \A n \in Names :
                    Exists(remotes0[r], n) => remotes[r][n] = remotes0[r][n]
    /\ (pass = 2 /\ ext = 0)
          => \A i \in 1..Len(visits) : visits[i].actions = <<>>

\* both commands ran with --recursive; after the save the root's origin
\* (which has a push URL) and the stale remote of libs/core/sub were deleted;
\* the sync added both again
C24_Witness ==
    /\ pass = 2
    /\ pc = "done"
    /\ result = "ok"
    /\ save_args.recursive
    /\ recursive
    /\ ext = 2
    /\ remotes = remotes0
    /\ remotes[<<>>]["origin"].pushurl = URLS[2]
    /\ Len(visits) = 3
    /\ visits[1].actions # <<>>
    /\ visits[3].loc = <<"libs", "core", "sub">>
    /\ visits[3].applied = 1

(* ------------------- properties: order of the walk --------------------- *)

\* C26: the recursive walk is depth-first and visits each node at most once
\* per invocation: the visits are in ascending order of their full path, a
\* path before its extensions (parent before children, the matched children
\* of a parent in ascending path order, a child's whole subtree before the
\* next sibling); when a child is snapshotted its parent has been diffed and
\* applied in full; and no repository is diffed or applied twice.
C26_DepthFirstOncePerNode ==
    /\ \A i, j \in 1..Len(visits) :
          i < j => PathLt(visits[i].label, visits[j].label)
    /\ (pc = "sync" /\ node.loc # <<>>)
          => \E i \in 1..Len(visits) :
                /\ visits[i].loc = node.parent
                /\ visits[i].ok
                /\ ~dry_run => visits[i].applied = Len(visits[i].actions)
    /\ \A i, j \in 1..Len(visits) :
          i # j => visits[i].loc # visits[j].loc

(* ------------------ properties: dry run against real run --------------- *)

\* C25: the diagnostics of a dry run are those of a real run on the same
\* starting state: when `sync` has ended after `sync --dry-run` ran on the
\* same config and the same repositories, its sequence of diagnostics equals
\* the dry run's, and it diffed the same repositories under the same labels
\* in the same order.
C25_DryRunSameDiagnostics ==
    (pass = 2 /\ pc = "done" /\ ~dry_run)
        => /\ stderr = prev.stderr
           /\ Len(visits) = Len(prev.visits)
           /\ \A i \in 1..Len(visits) :
                 /\ visits[i].loc = prev.visits[i].loc
                 /\ visits[i].label = prev.visits[i].label

====
